---- MODULE Spec2Model ----
(***************************************************************************)
(* Model of Firmware/MotorControl/controller.cpp: the cascaded             *)
(* trajectory/position/velocity/current controller of one axis.            *)
(*                                                                         *)
(* Number representation.  The float fields of the controller are held as  *)
(* integers (one unit of position, velocity or current is one quantum).    *)
(* Where the code multiplies by a fraction the model keeps the fraction    *)
(* as numerator and denominator and rounds the product toward zero:        *)
(*   - vel_limit_tolerance is held in tenths (TolDen), so 1.2 is 12;       *)
(*   - the integrator decay 0.99f is DecayNum/DecayDen;                    *)
(*   - the interpolation weight frac is fracNum/cpr;                       *)
(*   - cogmap_correction_pwr_ is held in units of 1/PwrDen, so that its    *)
(*     smoothing factor 0.001f is exact;                                   *)
(*   - time is counted in units of half a control cycle, so that           *)
(*     current_meas_period is 2 and a planned duration need not be a       *)
(*     whole number of cycles.                                             *)
(* Non-finite floats (NaN, infinities) are outside the model.              *)
(***************************************************************************)
EXTENDS Integers, FiniteSets, Sequences, TLC

VARIABLES
    control_mode,            \* config_.control_mode
    pos_setpoint,            \* pos_setpoint_
    vel_setpoint,            \* vel_setpoint_
    current_setpoint,        \* current_setpoint_
    vel_integrator_current,  \* vel_integrator_current_
    goal_point,              \* goal_point_
    traj_start_loop_count,   \* traj_start_loop_count_
    cogmap,                  \* config_.cogmap[0 .. cogmap_size-1]
    cogmap_current,          \* cogmap_current_
    cogmap_correction_pwr,   \* cogmap_correction_pwr_ (in 1/PwrDen units)
    error,                   \* error_ (set of fault flags)
    axis_error,              \* axis_->error_ (set of fault flags)
    loop_counter,            \* axis_->loop_counter_
    trap,                    \* axis_->trap_ (the planned trajectory)
    config,                  \* the configuration fields that differ between runs
    out,                     \* the caller's *current_setpoint_output
    cycles,                  \* number of control cycles run so far
    cmds,                    \* number of commands issued so far
    pending,                 \* the set_pos_setpoint call in progress, if any
    traj_start_cycle,        \* the cycle number at the last move_to_pos
    last                     \* what the last operation was and what it computed

vars == <<control_mode, pos_setpoint, vel_setpoint, current_setpoint,
          vel_integrator_current, goal_point, traj_start_loop_count, cogmap,
          cogmap_current, cogmap_correction_pwr, error, axis_error,
          loop_counter, trap, config, out, cycles, cmds, pending,
          traj_start_cycle, last>>

----------------------------------------------------------------------------
(* Bounds of the model *)

MaxCycles == 3
MaxCmds == 2
CogmapSize == 2
LoopCounterRange == 4

----------------------------------------------------------------------------
(* Program constants *)

CTRL_MODE_CURRENT_CONTROL == 1
CTRL_MODE_VELOCITY_CONTROL == 2
CTRL_MODE_POSITION_CONTROL == 3
CTRL_MODE_TRAJECTORY_CONTROL == 4

ERROR_OVERSPEED == "ERROR_OVERSPEED"
ERROR_CONTROLLER_FAILED == "ERROR_CONTROLLER_FAILED"

MOTOR_TYPE_HIGH_CURRENT == "MOTOR_TYPE_HIGH_CURRENT"
MOTOR_TYPE_ACIM == "MOTOR_TYPE_ACIM"

current_meas_period == 2
TolDen == 10
DecayNum == 99
DecayDen == 100
PwrDen == 1000

(* Configuration values that are the same in every run *)
vel_limit == 10
pos_gain == 1
vel_gain == 4
vel_integrator_gain == 4
vel_ramp_rate == 2
vel_ramp_target == 7
cpr == 8192
cogmap_integrator_gain == 1
cogmap_max_current == 30
acim_gain_min_flux == 2
A_per_css == 2
trap_vel_limit == 1
trap_accel_limit == 1
trap_decel_limit == 1

----------------------------------------------------------------------------
(* Numeric helpers *)

Abs(x) == IF x < 0 THEN -x ELSE x

Sgn(x) == IF x < 0 THEN -1 ELSE IF x > 0 THEN 1 ELSE 0

\* a / b for b # 0, rounded toward zero
TruncDiv(a, b) ==
    LET q == Abs(a) \div Abs(b)
    IN  IF (a < 0) = (b < 0) THEN q ELSE -q

\* x modulo y, in [0, y) for y > 0
fmodf_pos(x, y) == x % y

\* x wrapped into [-pm_range, pm_range)
wrap_pm(x, pm_range) == fmodf_pos(x + pm_range, 2 * pm_range) - pm_range

\* x clamped into [-limit, limit]
clamp_bidirf(x, limit) ==
    IF x > limit THEN limit ELSE IF x < -limit THEN -limit ELSE x

----------------------------------------------------------------------------
(* The trajectory planner axis_->trap_ (an external collaborator of the    *)
(* controller).  A plan runs from Xi to Xf at the speed limit; its sample  *)
(* accelerates during the first half of the duration and decelerates       *)
(* during the second.                                                      *)

planTrapezoidal(Xf, Xi, Vi, Vmax, Amax, Dmax) ==
    [Xi |-> Xi, Xf |-> Xf, s |-> Sgn(Xf - Xi),
     Tf |-> (Abs(Xf - Xi) + Vmax - 1) \div Vmax,
     Vmax |-> Vmax, Amax |-> Amax, Dmax |-> Dmax]

eval(tr, t) ==
    [Y   |-> IF t >= tr.Tf THEN tr.Xf ELSE tr.Xi + tr.s * tr.Vmax * t,
     Yd  |-> IF t < tr.Tf THEN tr.s * tr.Vmax ELSE 0,
     Ydd |-> IF 2 * t < tr.Tf THEN tr.s * tr.Amax
             ELSE IF t < tr.Tf THEN -(tr.s * tr.Dmax) ELSE 0]

----------------------------------------------------------------------------
(* The steps of Controller::update, in the order of the code *)

\* faulty variant: the loop counts are subtracted as signed numbers
TrajElapsed_Signed(lc, start) ==
    (lc - start) * current_meas_period

\* elapsed trajectory time: unsigned subtraction of the loop counts
TrajElapsed(lc, start) ==
    ((lc - start) % LoopCounterRange) * current_meas_period

\* faulty variant: completion already at the planned duration
TrajectoryStep_AtTf(mode, ps, vs, cs, t, tr) ==
    IF mode = CTRL_MODE_TRAJECTORY_CONTROL
    THEN IF t >= tr.Tf
         THEN [mode |-> CTRL_MODE_POSITION_CONTROL, pos |-> ps, vel |-> 0,
               cur |-> 0, sampled |-> FALSE, completed |-> TRUE]
         ELSE LET traj_step == eval(tr, t)
              IN  [mode |-> mode, pos |-> traj_step.Y, vel |-> traj_step.Yd,
                   cur |-> traj_step.Ydd * A_per_css,
                   sampled |-> TRUE, completed |-> FALSE]
    ELSE [mode |-> mode, pos |-> ps, vel |-> vs, cur |-> cs,
          sampled |-> FALSE, completed |-> FALSE]

\* trajectory control: completion or sampling
TrajectoryStep(mode, ps, vs, cs, t, tr) ==
    IF mode = CTRL_MODE_TRAJECTORY_CONTROL
    THEN IF t > tr.Tf
         THEN [mode |-> CTRL_MODE_POSITION_CONTROL, pos |-> ps, vel |-> 0,
               cur |-> 0, sampled |-> FALSE, completed |-> TRUE]
         ELSE LET traj_step == eval(tr, t)
              IN  [mode |-> mode, pos |-> traj_step.Y, vel |-> traj_step.Yd,
                   cur |-> traj_step.Ydd * A_per_css,
                   sampled |-> TRUE, completed |-> FALSE]
    ELSE [mode |-> mode, pos |-> ps, vel |-> vs, cur |-> cs,
          sampled |-> FALSE, completed |-> FALSE]

\* faulty variant: the ramp step is not limited
VelRampStep_NoClamp(mode, vs, ramp_enable) ==
    IF mode = CTRL_MODE_VELOCITY_CONTROL /\ ramp_enable
    THEN vs + (vel_ramp_target - vs)
    ELSE vs

\* ramp rate limited velocity setpoint
VelRampStep(mode, vs, ramp_enable) ==
    IF mode = CTRL_MODE_VELOCITY_CONTROL /\ ramp_enable
    THEN LET max_step_size == current_meas_period * vel_ramp_rate
             full_step == vel_ramp_target - vs
         IN  vs + clamp_bidirf(full_step, max_step_size)
    ELSE vs

\* faulty variant: the circular delta is not wrapped
PosErr_NoWrap(in_cpr, ps, pos_cpr, pos_estimate) ==
    IF in_cpr
    THEN fmodf_pos(ps, cpr) - pos_cpr
    ELSE ps - pos_estimate

\* faulty variant: the circular delta is taken against the pos_estimate argument
PosErr_UsesEstimate(in_cpr, ps, pos_cpr, pos_estimate) ==
    IF in_cpr
    THEN wrap_pm(fmodf_pos(ps, cpr) - pos_estimate, cpr \div 2)
    ELSE ps - pos_estimate

\* the position error of the position loop
PosErr(in_cpr, ps, pos_cpr, pos_estimate) ==
    IF in_cpr
    THEN wrap_pm(fmodf_pos(ps, cpr) - pos_cpr, cpr \div 2)
    ELSE ps - pos_estimate

\* position control: the normalised setpoint, the error and the velocity demand
PositionLoop(mode, in_cpr, ps, vs, pos_cpr, pos_estimate) ==
    IF mode >= CTRL_MODE_POSITION_CONTROL
    THEN LET pos_err == PosErr(in_cpr, ps, pos_cpr, pos_estimate)
         IN  [pos |-> IF in_cpr THEN fmodf_pos(ps, cpr) ELSE ps,
              pos_err |-> pos_err,
              vel_des |-> vs + pos_gain * pos_err]
    ELSE [pos |-> ps, pos_err |-> 0, vel_des |-> vs]

\* velocity limiting
VelLimit(vel_des, vel_lim) ==
    LET v1 == IF vel_des > vel_lim THEN vel_lim ELSE vel_des
    IN  IF v1 < -vel_lim THEN -vel_lim ELSE v1

\* faulty variant: the fault is raised already at the threshold
Overspeed_AtThreshold(tolerance, vel_estimate, vel_lim) ==
    /\ tolerance > 0
    /\ Abs(vel_estimate) * TolDen >= tolerance * vel_lim

\* the overspeed check (tolerance in tenths; 0 disables it)
Overspeed(tolerance, vel_estimate, vel_lim) ==
    /\ tolerance > 0
    /\ Abs(vel_estimate) * TolDen > tolerance * vel_lim

\* torque per amp gain scheduling (ACIM)
GainSchedule(gain, motor_type, flux) ==
    IF motor_type = MOTOR_TYPE_ACIM
    THEN LET effective_flux ==
                 IF Abs(flux) < acim_gain_min_flux
                 THEN (IF flux < 0 THEN -acim_gain_min_flux
                                   ELSE acim_gain_min_flux)
                 ELSE flux
         IN  TruncDiv(gain, effective_flux)
    ELSE gain

\* anticogging: the map index of the rotor position and its fraction
CogIndex(count_in_cpr) ==
    LET idxNum == count_in_cpr * CogmapSize
        idx == idxNum \div cpr
    IN  [idx |-> idx, idx1 |-> (idx + 1) % CogmapSize, fracNum |-> idxNum % cpr]

\* linear interpolation between the two bracketing map entries
CogInterp(cm, ci) ==
    TruncDiv((cpr - ci.fracNum) * cm[ci.idx] + ci.fracNum * cm[ci.idx1], cpr)

\* faulty variant: the second bracketing entry is not clamped
CogmapAdapt_NoClamp1(cm, ci, cogmap_correction) ==
    LET c1 == [cm EXCEPT ![ci.idx] =
                  @ + TruncDiv((cpr - ci.fracNum) * cogmap_correction, cpr)]
        c2 == [c1 EXCEPT ![ci.idx1] =
                  @ + TruncDiv(ci.fracNum * cogmap_correction, cpr)]
    IN  [c2 EXCEPT ![ci.idx] = clamp_bidirf(@, cogmap_max_current)]

\* anticogging integral and linear broadcast
CogmapAdapt(cm, ci, cogmap_correction) ==
    LET c1 == [cm EXCEPT ![ci.idx] =
                  @ + TruncDiv((cpr - ci.fracNum) * cogmap_correction, cpr)]
        c2 == [c1 EXCEPT ![ci.idx1] =
                  @ + TruncDiv(ci.fracNum * cogmap_correction, cpr)]
        c3 == [c2 EXCEPT ![ci.idx] = clamp_bidirf(@, cogmap_max_current)]
    IN  [c3 EXCEPT ![ci.idx1] = clamp_bidirf(@, cogmap_max_current)]

\* RMS correction for reporting (pwr in 1/PwrDen units)
CorrectionPwr(pwr, cogmap_corr_rate) ==
    pwr + TruncDiv(PwrDen * cogmap_corr_rate * cogmap_corr_rate - pwr, PwrDen)

\* faulty variant: only the upper limit is applied
CurrentLimit_NoLower(Iq, Ilim) ==
    [Iq |-> IF Iq > Ilim THEN Ilim ELSE Iq, limited |-> Iq > Ilim]

\* current limiting
CurrentLimit(Iq, Ilim) ==
    LET hi == Iq > Ilim
        I1 == IF hi THEN Ilim ELSE Iq
        lo == I1 < -Ilim
        I2 == IF lo THEN -Ilim ELSE I1
    IN  [Iq |-> I2, limited |-> hi \/ lo]

\* faulty variant: the integrator keeps integrating while the output is limited
IntegratorUpdate_Windup(mode, limited, integ, gain, v_err) ==
    IF mode < CTRL_MODE_VELOCITY_CONTROL
    THEN 0
    ELSE integ + (gain * current_meas_period) * v_err

\* velocity integrator (behaviour dependent on limiting)
IntegratorUpdate(mode, limited, integ, gain, v_err) ==
    IF mode < CTRL_MODE_VELOCITY_CONTROL
    THEN 0
    ELSE IF limited
         THEN TruncDiv(integ * DecayNum, DecayDen)
         ELSE integ + (gain * current_meas_period) * v_err

\* Controller::set_error
set_error(err, axis_err, flag) ==
    [error |-> err \cup {flag},
     axis_error |-> axis_err \cup {ERROR_CONTROLLER_FAILED}]

\* the axis control loop advances its loop counter once per cycle
AxisTick(lc) == (lc + 1) % LoopCounterRange

----------------------------------------------------------------------------
(* Inputs *)

VelEstimates == <<12, 11, 13, -13>>

\* The inputs of one cycle.  Input k pairs vel_estimate VelEstimates[k % 4 + 1]
\* with values of the other inputs chosen so that the eight inputs together
\* hold every pair of values of every two inputs.
Bit(k, pattern) == (pattern[(k % 4) + 1] = 1) = (k < 4)

MkInput(k, motor_type) ==
    [vel_estimate |-> VelEstimates[(k % 4) + 1],
     Ilim         |-> IF Bit(k, <<1, 1, 1, 1>>) THEN 200 ELSE 3,
     pos_cpr      |-> IF Bit(k, <<1, 0, 1, 0>>) THEN 50 ELSE 6000,
     count_in_cpr |-> IF Bit(k, <<1, 0, 1, 0>>) THEN 1024 ELSE 6144,
     pos_estimate |-> IF Bit(k, <<1, 1, 0, 0>>) THEN 0 ELSE 3,
     has_out      |-> Bit(k, <<1, 0, 0, 1>>),
     flux         |-> IF motor_type # MOTOR_TYPE_ACIM THEN 0
                      ELSE IF Bit(k, <<1, 1, 1, 0>>) THEN 4 ELSE -1]

Inputs == {MkInput(k, config.motor_type) : k \in 0 .. 7}

PosCommands == {<<3, 0, 0>>, <<8100, 5, 2>>}
VelCommands == {<<-5, 0>>, <<9, 2>>}
CurrentCommands == {-1, 2}
Goals == {-3, 2}
Displacements == {<<-3, TRUE>>, <<2, FALSE>>}

\* the configurations: every pair of values of two fields occurs in one of
\* them, except that the overspeed check is on for the permanent-magnet
\* motor and off for the induction motor
Configs ==
    {[setpoints_in_cpr |-> c,
      vel_limit_tolerance |-> IF z THEN 12 ELSE 0,
      vel_ramp_enable |-> (c = z),
      motor_type |-> IF z THEN MOTOR_TYPE_HIGH_CURRENT ELSE MOTOR_TYPE_ACIM] :
        c \in BOOLEAN, z \in BOOLEAN}

NoInput == [pos_estimate |-> 0, vel_estimate |-> 0, pos_cpr |-> 0,
            count_in_cpr |-> 0, Ilim |-> 0, flux |-> 0, has_out |-> FALSE]

NoStep == [Y |-> 0, Yd |-> 0, Ydd |-> 0]

\* no set_pos_setpoint call is in progress
NoPending == [pc |-> 0, p |-> 0, v |-> 0, c |-> 0]

\* the record of an operation that is not an update
CmdLast(op) ==
    [op |-> op, ret |-> TRUE, wrote |-> FALSE, in |-> NoInput,
     mode0 |-> 0, mode1 |-> 0, pos0 |-> 0, pos1 |-> 0, integ0 |-> 0,
     cogmap0 |-> <<>>, t |-> 0,
     sampled |-> FALSE, completed |-> FALSE, step |-> NoStep,
     pos_err |-> 0, v_err |-> 0, gain |-> 0, limited |-> FALSE, Iq |-> 0,
     idx |-> 0, idx1 |-> 0, fracNum |-> 0]

----------------------------------------------------------------------------
(* Controller::update as a whole: the new values of the fields it writes,  *)
(* its return value and the intermediate values of the cycle.              *)

Cycle(in, fault) ==
    LET t == TrajElapsed(loop_counter, traj_start_loop_count)
        tj == TrajectoryStep(control_mode, pos_setpoint, vel_setpoint,
                             current_setpoint, t, trap)
        vs == VelRampStep(tj.mode, tj.vel, config.vel_ramp_enable)
        pl == PositionLoop(tj.mode, config.setpoints_in_cpr, tj.pos, vs,
                           in.pos_cpr, in.pos_estimate)
        vel_lim == vel_limit
        vel_des == VelLimit(pl.vel_des, vel_lim)
        vg == GainSchedule(vel_gain, config.motor_type, in.flux)
        vig == GainSchedule(vel_integrator_gain, config.motor_type, in.flux)
        ci == CogIndex(in.count_in_cpr)
        cc == CogInterp(cogmap, ci)
        v_err == vel_des - in.vel_estimate
        velmode == tj.mode >= CTRL_MODE_VELOCITY_CONTROL
        cogmap_corr_rate == cogmap_integrator_gain * v_err
        Iq0 == tj.cur + cc + (IF velmode THEN vg * v_err ELSE 0)
                 + vel_integrator_current
        cl == CurrentLimit(Iq0, in.Ilim)
        se == set_error(error, axis_error, ERROR_OVERSPEED)
        common == [CmdLast("update") EXCEPT
                     !.in = in, !.mode0 = control_mode, !.mode1 = tj.mode,
                     !.pos0 = pos_setpoint, !.pos1 = tj.pos,
                     !.integ0 = vel_integrator_current,
                     !.cogmap0 = cogmap,
                     !.t = IF control_mode = CTRL_MODE_TRAJECTORY_CONTROL
                           THEN t ELSE 0,
                     !.sampled = tj.sampled,
                     !.completed = tj.completed,
                     !.step = IF tj.sampled THEN eval(trap, t) ELSE NoStep,
                     !.pos_err = pl.pos_err]
    IN  IF fault
        THEN [ret |-> FALSE, mode |-> tj.mode, pos |-> pl.pos, vel |-> vs,
              cur |-> tj.cur, integ |-> vel_integrator_current,
              cogmap |-> cogmap, cogmap_current |-> cogmap_current,
              pwr |-> cogmap_correction_pwr,
              error |-> se.error, axis_error |-> se.axis_error, out |-> out,
              last |-> [common EXCEPT !.ret = FALSE]]
        ELSE [ret |-> TRUE, mode |-> tj.mode, pos |-> pl.pos, vel |-> vs,
              cur |-> tj.cur,
              integ |-> IntegratorUpdate(tj.mode, cl.limited,
                                         vel_integrator_current, vig, v_err),
              cogmap |-> IF velmode
                         THEN CogmapAdapt(cogmap, ci,
                                  cogmap_corr_rate * current_meas_period)
                         ELSE cogmap,
              cogmap_current |-> cc,
              pwr |-> IF velmode
                      THEN CorrectionPwr(cogmap_correction_pwr, cogmap_corr_rate)
                      ELSE cogmap_correction_pwr,
              error |-> error, axis_error |-> axis_error,
              out |-> IF in.has_out THEN cl.Iq ELSE out,
              last |-> [common EXCEPT
                          !.wrote = in.has_out, !.v_err = v_err, !.gain = vig,
                          !.limited = cl.limited, !.Iq = cl.Iq,
                          !.idx = ci.idx, !.idx1 = ci.idx1,
                          !.fracNum = ci.fracNum]]

\* faulty variant: the overspeed check comes after the anticogging lookup
ControllerUpdate_CheckLate(in) ==
    LET r == Cycle(in, FALSE)
    IN  IF Overspeed(config.vel_limit_tolerance, in.vel_estimate, vel_limit)
        THEN [Cycle(in, TRUE) EXCEPT !.cogmap_current = r.cogmap_current]
        ELSE r

\* faulty variant: the overspeed check comes first, before trajectory control
ControllerUpdate_CheckFirst(in) ==
    IF Overspeed(config.vel_limit_tolerance, in.vel_estimate, vel_limit)
    THEN [Cycle(in, TRUE) EXCEPT !.mode = control_mode, !.pos = pos_setpoint,
                                 !.vel = vel_setpoint, !.cur = current_setpoint]
    ELSE Cycle(in, FALSE)

ControllerUpdate(in) ==
    Cycle(in, Overspeed(config.vel_limit_tolerance, in.vel_estimate, vel_limit))

----------------------------------------------------------------------------
(* Initial state: the controller after construction, with the default      *)
(* control mode and an all-zero cogging map.                               *)

Init ==
    /\ control_mode = CTRL_MODE_POSITION_CONTROL
    /\ pos_setpoint = 0
    /\ vel_setpoint = 0
    /\ current_setpoint = 0
    /\ vel_integrator_current = 0
    /\ goal_point = 0
    /\ traj_start_loop_count = 0
    /\ cogmap = [i \in 0 .. CogmapSize - 1 |-> 0]
    /\ cogmap_current = 0
    /\ cogmap_correction_pwr = 0
    /\ error = {}
    /\ axis_error = {}
    /\ loop_counter = LoopCounterRange - 2
    /\ trap = planTrapezoidal(0, 0, 0, trap_vel_limit, trap_accel_limit,
                              trap_decel_limit)
    /\ config \in Configs
    /\ out = 0
    /\ cycles = 0
    /\ cmds = 0
    /\ pending = NoPending
    /\ traj_start_cycle = -1
    /\ last = CmdLast("init")

----------------------------------------------------------------------------
(* Operations *)

\* faulty variant: reset also clears the fault flags
reset_ClearsErrors ==
    /\ cmds < MaxCmds
    /\ pending.pc = 0
    /\ pos_setpoint' = 0
    /\ vel_setpoint' = 0
    /\ vel_integrator_current' = 0
    /\ current_setpoint' = 0
    /\ error' = {}
    /\ axis_error' = {}
    /\ cmds' = cmds + 1
    /\ UNCHANGED pending
    /\ last' = CmdLast("reset")
    /\ UNCHANGED traj_start_cycle
    /\ UNCHANGED <<control_mode, goal_point, traj_start_loop_count, cogmap,
                   cogmap_current, cogmap_correction_pwr,
                   loop_counter, trap, config, out, cycles>>

\* faulty variant: reset leaves the integrator alone
reset_KeepsIntegrator ==
    /\ cmds < MaxCmds
    /\ pending.pc = 0
    /\ pos_setpoint' = 0
    /\ vel_setpoint' = 0
    /\ current_setpoint' = 0
    /\ cmds' = cmds + 1
    /\ UNCHANGED pending
    /\ last' = CmdLast("reset")
    /\ UNCHANGED traj_start_cycle
    /\ UNCHANGED <<control_mode, vel_integrator_current, goal_point,
                   traj_start_loop_count, cogmap,
                   cogmap_current, cogmap_correction_pwr, error, axis_error,
                   loop_counter, trap, config, out, cycles>>

reset ==
    /\ cmds < MaxCmds
    /\ pending.pc = 0
    /\ pos_setpoint' = 0
    /\ vel_setpoint' = 0
    /\ vel_integrator_current' = 0
    /\ current_setpoint' = 0
    /\ cmds' = cmds + 1
    /\ UNCHANGED pending
    /\ last' = CmdLast("reset")
    /\ UNCHANGED traj_start_cycle
    /\ UNCHANGED <<control_mode, goal_point, traj_start_loop_count, cogmap,
                   cogmap_current, cogmap_correction_pwr, error, axis_error,
                   loop_counter, trap, config, out, cycles>>

\* faulty variant: the position command also clears the integrator
set_pos_setpoint_ResetsIntegrator(p, vel_feed_forward, current_feed_forward) ==
    /\ cmds < MaxCmds
    /\ pending.pc = 0
    /\ pos_setpoint' = p
    /\ vel_setpoint' = vel_feed_forward
    /\ current_setpoint' = current_feed_forward
    /\ control_mode' = CTRL_MODE_POSITION_CONTROL
    /\ vel_integrator_current' = 0
    /\ cmds' = cmds + 1
    /\ last' = CmdLast("set_pos_setpoint")
    /\ UNCHANGED <<goal_point, traj_start_loop_count,
                   cogmap, cogmap_current, cogmap_correction_pwr, error,
                   axis_error, loop_counter, trap, config, out, cycles,
                   pending, traj_start_cycle>>

set_pos_setpoint(p, vel_feed_forward, current_feed_forward) ==
    /\ cmds < MaxCmds
    /\ pending.pc = 0
    /\ pos_setpoint' = p
    /\ vel_setpoint' = vel_feed_forward
    /\ current_setpoint' = current_feed_forward
    /\ control_mode' = CTRL_MODE_POSITION_CONTROL
    /\ cmds' = cmds + 1
    /\ UNCHANGED pending
    /\ last' = CmdLast("set_pos_setpoint")
    /\ UNCHANGED traj_start_cycle
    /\ UNCHANGED <<vel_integrator_current, goal_point, traj_start_loop_count,
                   cogmap, cogmap_current, cogmap_correction_pwr, error,
                   axis_error, loop_counter, trap, config, out, cycles>>

\* faulty variant: the velocity command does not switch the mode
set_vel_setpoint_KeepsMode(v, current_feed_forward) ==
    /\ cmds < MaxCmds
    /\ pending.pc = 0
    /\ vel_setpoint' = v
    /\ current_setpoint' = current_feed_forward
    /\ cmds' = cmds + 1
    /\ UNCHANGED pending
    /\ last' = CmdLast("set_vel_setpoint")
    /\ UNCHANGED traj_start_cycle
    /\ UNCHANGED <<control_mode, pos_setpoint, vel_integrator_current,
                   goal_point, traj_start_loop_count, cogmap, cogmap_current,
                   cogmap_correction_pwr, error, axis_error, loop_counter,
                   trap, config, out, cycles>>

set_vel_setpoint(v, current_feed_forward) ==
    /\ cmds < MaxCmds
    /\ pending.pc = 0
    /\ vel_setpoint' = v
    /\ current_setpoint' = current_feed_forward
    /\ control_mode' = CTRL_MODE_VELOCITY_CONTROL
    /\ cmds' = cmds + 1
    /\ UNCHANGED pending
    /\ last' = CmdLast("set_vel_setpoint")
    /\ UNCHANGED traj_start_cycle
    /\ UNCHANGED <<pos_setpoint, vel_integrator_current, goal_point,
                   traj_start_loop_count, cogmap, cogmap_current,
                   cogmap_correction_pwr, error, axis_error, loop_counter,
                   trap, config, out, cycles>>

\* faulty variant: the current command does not switch the mode
set_current_setpoint_KeepsMode(c) ==
    /\ cmds < MaxCmds
    /\ pending.pc = 0
    /\ current_setpoint' = c
    /\ cmds' = cmds + 1
    /\ last' = CmdLast("set_current_setpoint")
    /\ UNCHANGED <<control_mode, pos_setpoint, vel_setpoint,
                   vel_integrator_current, goal_point, traj_start_loop_count,
                   cogmap, cogmap_current, cogmap_correction_pwr, error,
                   axis_error, loop_counter, trap, config, out, cycles,
                   pending, traj_start_cycle>>

set_current_setpoint(c) ==
    /\ cmds < MaxCmds
    /\ pending.pc = 0
    /\ current_setpoint' = c
    /\ control_mode' = CTRL_MODE_CURRENT_CONTROL
    /\ cmds' = cmds + 1
    /\ UNCHANGED pending
    /\ last' = CmdLast("set_current_setpoint")
    /\ UNCHANGED traj_start_cycle
    /\ UNCHANGED <<pos_setpoint, vel_setpoint, vel_integrator_current,
                   goal_point, traj_start_loop_count, cogmap, cogmap_current,
                   cogmap_correction_pwr, error, axis_error, loop_counter,
                   trap, config, out, cycles>>

\* the body of Controller::move_to_pos, shared with move_incremental
MoveTo(goal, op) ==
    /\ cmds < MaxCmds
    /\ pending.pc = 0
    /\ trap' = planTrapezoidal(goal, pos_setpoint, vel_setpoint,
                               trap_vel_limit, trap_accel_limit,
                               trap_decel_limit)
    /\ traj_start_loop_count' = loop_counter
    /\ traj_start_cycle' = cycles
    /\ control_mode' = CTRL_MODE_TRAJECTORY_CONTROL
    /\ goal_point' = goal
    /\ cmds' = cmds + 1
    /\ UNCHANGED pending
    /\ last' = CmdLast(op)
    /\ UNCHANGED <<pos_setpoint, vel_setpoint, current_setpoint,
                   vel_integrator_current, cogmap, cogmap_current,
                   cogmap_correction_pwr, error, axis_error, loop_counter,
                   config, out, cycles>>

move_to_pos(goal) == MoveTo(goal, "move_to_pos")

move_incremental(displacement, from_goal_point) ==
    IF from_goal_point
    THEN MoveTo(goal_point + displacement, "move_incremental")
    ELSE MoveTo(pos_setpoint + displacement, "move_incremental")

\* one control cycle: Controller::update, then the axis advances its counter
update_cycle(in) ==
    /\ \E r \in {ControllerUpdate(in)} :
           /\ control_mode' = r.mode
           /\ pos_setpoint' = r.pos
           /\ vel_setpoint' = r.vel
           /\ current_setpoint' = r.cur
           /\ vel_integrator_current' = r.integ
           /\ cogmap' = r.cogmap
           /\ cogmap_current' = r.cogmap_current
           /\ cogmap_correction_pwr' = r.pwr
           /\ error' = r.error
           /\ axis_error' = r.axis_error
           /\ out' = r.out
           /\ last' = r.last
    /\ loop_counter' = AxisTick(loop_counter)
    /\ UNCHANGED <<goal_point, traj_start_loop_count, trap, config, cmds,
                   pending, traj_start_cycle>>

\* a control cycle of a run of bounded length
update(in) ==
    /\ cycles < MaxCycles
    /\ update_cycle(in)
    /\ cycles' = cycles + 1

Next ==
    \/ reset
    \/ \E a \in PosCommands : set_pos_setpoint(a[1], a[2], a[3])
    \/ \E a \in VelCommands : set_vel_setpoint(a[1], a[2])
    \/ \E c \in CurrentCommands : set_current_setpoint(c)
    \/ \E g \in Goals : move_to_pos(g)
    \/ \E a \in Displacements : move_incremental(a[1], a[2])
    \/ \E in \in Inputs : update(in)

Spec == Init /\ [][Next]_vars

----------------------------------------------------------------------------
(* set_pos_setpoint run from the lower-priority command context, one field *)
(* write at a time, with the control interrupt (update) free to run        *)
(* between any two of its writes.                                          *)

\* pos_setpoint_ = pos_setpoint
set_pos_setpoint_pos(p, vel_feed_forward, current_feed_forward) ==
    /\ cmds < MaxCmds
    /\ pending.pc = 0
    /\ pos_setpoint' = p
    /\ pending' = [pc |-> 1, p |-> p, v |-> vel_feed_forward,
                   c |-> current_feed_forward]
    /\ cmds' = cmds + 1
    /\ last' = CmdLast("set_pos_setpoint (in progress)")
    /\ UNCHANGED <<control_mode, vel_setpoint, current_setpoint,
                   vel_integrator_current, goal_point, traj_start_loop_count,
                   cogmap, cogmap_current, cogmap_correction_pwr, error,
                   axis_error, loop_counter, trap, config, out, cycles,
                   traj_start_cycle>>

\* vel_setpoint_ = vel_feed_forward
set_pos_setpoint_vel ==
    /\ pending.pc = 1
    /\ vel_setpoint' = pending.v
    /\ pending' = [pending EXCEPT !.pc = 2]
    /\ last' = CmdLast("set_pos_setpoint (in progress)")
    /\ UNCHANGED <<control_mode, pos_setpoint, current_setpoint,
                   vel_integrator_current, goal_point, traj_start_loop_count,
                   cogmap, cogmap_current, cogmap_correction_pwr, error,
                   axis_error, loop_counter, trap, config, out, cycles, cmds,
                   traj_start_cycle>>

\* current_setpoint_ = current_feed_forward
set_pos_setpoint_current ==
    /\ pending.pc = 2
    /\ current_setpoint' = pending.c
    /\ pending' = [pending EXCEPT !.pc = 3]
    /\ last' = CmdLast("set_pos_setpoint (in progress)")
    /\ UNCHANGED <<control_mode, pos_setpoint, vel_setpoint,
                   vel_integrator_current, goal_point, traj_start_loop_count,
                   cogmap, cogmap_current, cogmap_correction_pwr, error,
                   axis_error, loop_counter, trap, config, out, cycles, cmds,
                   traj_start_cycle>>

\* config_.control_mode = CTRL_MODE_POSITION_CONTROL, and return
set_pos_setpoint_mode ==
    /\ pending.pc = 3
    /\ control_mode' = CTRL_MODE_POSITION_CONTROL
    /\ pending' = NoPending
    /\ last' = CmdLast("set_pos_setpoint")
    /\ UNCHANGED <<pos_setpoint, vel_setpoint, current_setpoint,
                   vel_integrator_current, goal_point, traj_start_loop_count,
                   cogmap, cogmap_current, cogmap_correction_pwr, error,
                   axis_error, loop_counter, trap, config, out, cycles, cmds,
                   traj_start_cycle>>

NextPreempt ==
    \/ \E a \in PosCommands : set_pos_setpoint_pos(a[1], a[2], a[3])
    \/ set_pos_setpoint_vel
    \/ set_pos_setpoint_current
    \/ set_pos_setpoint_mode
    \/ \E a \in VelCommands : set_vel_setpoint(a[1], a[2])
    \/ \E g \in Goals : move_to_pos(g)
    \/ \E in \in Inputs : update(in)

SpecPreempt == Init /\ [][NextPreempt]_vars

----------------------------------------------------------------------------
(* A free-running axis: one move_to_pos, and the control interrupt calling *)
(* update once per cycle for ever.                                         *)

\* a goal whose plan from position 0 lasts exactly as long as the largest
\* elapsed time that the loop counter can express
LongGoal == (LoopCounterRange - 1) * current_meas_period * trap_vel_limit

TrajGoals == Goals \cup {LongGoal}

\* the inputs of a cycle in which the motor turns exactly at the velocity
\* that the position loop demands in that cycle
TrackingInput ==
    LET base == MkInput(1, config.motor_type)
        vel_des == Cycle(base, FALSE).last.v_err + base.vel_estimate
    IN  [base EXCEPT !.vel_estimate = vel_des]

\* the inputs of the free-running axis: a cycle in which the motor tracks
\* the demand and, where the overspeed check is on, a cycle above the
\* velocity tolerance
TrajInputs ==
    {TrackingInput} \cup
    (IF config.vel_limit_tolerance > 0
     THEN {MkInput(2, config.motor_type)} ELSE {})

move_once(goal) ==
    /\ cmds = 0
    /\ move_to_pos(goal)

update_free(in) ==
    /\ update_cycle(in)
    /\ UNCHANGED cycles

NextTraj ==
    \/ \E g \in TrajGoals : move_once(g)
    \/ \E in \in TrajInputs : update_free(in)

SpecTraj ==
    /\ Init /\ [][NextTraj]_vars
    /\ WF_vars(\E in \in TrajInputs : update_free(in))

----------------------------------------------------------------------------
(* Properties *)

Updated == last.op = "update"

\* C1: whenever update returns valid and writes an output, the written
\* current lies in [-Ilim, +Ilim], Ilim >= 0 being the current limit queried
\* in that cycle, in every control mode.
C1_OutputWithinLimit ==
    (Updated /\ last.ret /\ last.wrote) =>
        /\ last.in.Ilim >= 0
        /\ -last.in.Ilim <= out
        /\ out <= last.in.Ilim

\* a cycle in VELOCITY mode, with a learned cogging map and a wound-up
\* integrator, whose sum was cut at the negative limit
C1_Witness ==
    /\ Updated /\ last.ret /\ last.wrote /\ last.limited
    /\ last.mode1 = CTRL_MODE_VELOCITY_CONTROL
    /\ last.integ0 # 0
    /\ \E i \in DOMAIN last.cogmap0 : last.cogmap0[i] # 0
    /\ out = -last.in.Ilim

\* C2: update returns invalid and raises the overspeed fault exactly when
\* vel_limit_tolerance > 0 and |vel_estimate| > vel_limit_tolerance * vel_limit;
\* in every other case it returns valid and sets no fault bit.
C2_OverspeedExactly ==
    [][ last'.op = "update" =>
          LET over == /\ config.vel_limit_tolerance > 0
                      /\ \/ last'.in.vel_estimate * TolDen
                              > config.vel_limit_tolerance * vel_limit
                         \/ -(last'.in.vel_estimate * TolDen)
                              > config.vel_limit_tolerance * vel_limit
          IN  /\ last'.ret = ~over
              /\ over => /\ ERROR_OVERSPEED \in error'
                         /\ ERROR_CONTROLLER_FAILED \in axis_error'
              /\ ~over => /\ error' = error
                          /\ axis_error' = axis_error ]_vars

\* the example of the claim: limit 10, tolerance 1.2, estimate 13 faults
C2_Witness ==
    /\ Updated /\ ~last.ret
    /\ vel_limit = 10 /\ config.vel_limit_tolerance = 12
    /\ last.in.vel_estimate = 13
    /\ ERROR_OVERSPEED \in error /\ ERROR_CONTROLLER_FAILED \in axis_error

\* the example of the claim: limit 10, tolerance 1.2, estimate 11 proceeds
C2_WitnessProceeds ==
    /\ Updated /\ last.ret
    /\ vel_limit = 10 /\ config.vel_limit_tolerance = 12
    /\ last.in.vel_estimate = 11
    /\ error = {} /\ axis_error = {}

\* C3: the fault set is sticky: once the overspeed bit and the axis's
\* controller-failed bit are set, no controller operation clears either.
C3_FaultsSticky ==
    [][ /\ ERROR_OVERSPEED \in error => ERROR_OVERSPEED \in error'
        /\ ERROR_CONTROLLER_FAILED \in axis_error
             => ERROR_CONTROLLER_FAILED \in axis_error' ]_vars

\* the fault bits are still set after a reset that followed the fault
C3_Witness ==
    /\ last.op = "reset"
    /\ ERROR_OVERSPEED \in error
    /\ ERROR_CONTROLLER_FAILED \in axis_error

\* the setpoint as the position loop leaves it
Normalised(p) == IF config.setpoints_in_cpr THEN p % cpr ELSE p

TrajCycle == Updated /\ last.mode0 = CTRL_MODE_TRAJECTORY_CONTROL

\* C4 as stated: in TRAJECTORY mode, in a cycle whose elapsed time is
\* strictly greater than the planned duration the mode becomes POSITION, the
\* velocity and current setpoints become zero and the position setpoint keeps
\* its value; in a cycle with elapsed time <= T the mode stays TRAJECTORY and
\* the three setpoints are the planner's sample at the elapsed time.
C4_AsStated ==
    TrajCycle =>
        IF last.t > trap.Tf
        THEN /\ control_mode = CTRL_MODE_POSITION_CONTROL
             /\ vel_setpoint = 0
             /\ current_setpoint = 0
             /\ pos_setpoint = last.pos0
        ELSE /\ control_mode = CTRL_MODE_TRAJECTORY_CONTROL
             /\ pos_setpoint = last.step.Y
             /\ vel_setpoint = last.step.Yd
             /\ current_setpoint = last.step.Ydd * A_per_css

\* C4 (amended): as C4, except that with setpoints_in_cpr the position
\* setpoint left by the cycle is the sample's position (on completion: the
\* previous setpoint) wrapped into [0, cpr).
C4_TrajectoryCompletion ==
    TrajCycle =>
        IF last.t > trap.Tf
        THEN /\ control_mode = CTRL_MODE_POSITION_CONTROL
             /\ vel_setpoint = 0
             /\ current_setpoint = 0
             /\ pos_setpoint = Normalised(last.pos0)
             /\ ~last.sampled
        ELSE /\ control_mode = CTRL_MODE_TRAJECTORY_CONTROL
             /\ pos_setpoint = Normalised(last.step.Y)
             /\ vel_setpoint = last.step.Yd
             /\ current_setpoint = last.step.Ydd * A_per_css

\* a trajectory that was sampled on its way completes: the mode has dropped
\* to POSITION and the setpoint is the one the last sample left
C4_Witness ==
    /\ TrajCycle /\ last.t > trap.Tf
    /\ trap.Tf > 0
    /\ control_mode = CTRL_MODE_POSITION_CONTROL
    /\ pos_setpoint # trap.Xi
    /\ pos_setpoint = last.pos0

\* C5 as stated: two consecutive updates in CURRENT mode with the same inputs
\* return the same output, and an update in CURRENT mode never changes the
\* anti-windup integrator.
C5_CurrentModeIdempotent ==
    [][ /\ (/\ control_mode = CTRL_MODE_CURRENT_CONTROL
            /\ last'.op = "update")
           => vel_integrator_current' = vel_integrator_current
        /\ (/\ Updated
            /\ last.mode0 = CTRL_MODE_CURRENT_CONTROL
            /\ control_mode = CTRL_MODE_CURRENT_CONTROL
            /\ last'.op = "update"
            /\ last'.in = last.in)
           => /\ last'.ret = last.ret
              /\ last'.Iq = last.Iq
              /\ out' = out ]_vars

\* the part of C5 about the output alone
C5_SameOutput ==
    [][ (/\ Updated
         /\ last.mode0 = CTRL_MODE_CURRENT_CONTROL
         /\ control_mode = CTRL_MODE_CURRENT_CONTROL
         /\ last'.op = "update"
         /\ last'.in = last.in)
        => /\ last'.ret = last.ret
           /\ last'.Iq = last.Iq
           /\ out' = out ]_vars

\* the integrator gain in effect in the last cycle: vel_integrator_gain,
\* divided by the rotor flux for an induction motor
GainInEffect ==
    IF config.motor_type = MOTOR_TYPE_ACIM THEN last.gain ELSE vel_integrator_gain

\* C6: in a cycle with mode >= VELOCITY whose summed current was clamped, the
\* integrator becomes 0.99 times its previous value (to the rounding of one
\* quantum) and the velocity error is not added, so its magnitude does not
\* grow; only in an unclamped cycle does it grow, by
\* vel_integrator_gain * cycle_period * velocity_error.
C6_AntiWindup ==
    Updated =>
        IF last.ret /\ last.mode1 >= CTRL_MODE_VELOCITY_CONTROL
        THEN IF last.limited
             THEN /\ DecayDen * vel_integrator_current
                       - DecayNum * last.integ0 < DecayDen
                  /\ DecayNum * last.integ0
                       - DecayDen * vel_integrator_current < DecayDen
                  /\ vel_integrator_current * vel_integrator_current
                       <= last.integ0 * last.integ0
                  /\ vel_integrator_current * last.integ0 >= 0
             ELSE vel_integrator_current
                    = last.integ0
                        + GainInEffect * current_meas_period * last.v_err
        ELSE vel_integrator_current \in {0, last.integ0}

\* a saturated cycle that decayed a wound-up integrator although the
\* velocity error would have added to it
C6_Witness ==
    /\ Updated /\ last.ret /\ last.limited
    /\ last.mode1 >= CTRL_MODE_VELOCITY_CONTROL
    /\ last.integ0 <= -DecayDen
    /\ last.v_err < 0 /\ last.gain > 0
    /\ vel_integrator_current > last.integ0
    /\ vel_integrator_current < 0

\* the cogging correction of the last cycle
CogCorrection == cogmap_integrator_gain * last.v_err * current_meas_period

\* entry `new` is entry `old` plus the share weight/cpr of the correction
\* (to the rounding of one quantum), clamped to +-cogmap_max_current
SharedAndClamped(new, old, weight) ==
    \/ /\ -cogmap_max_current < new /\ new < cogmap_max_current
       /\ cpr * (new - old) - weight * CogCorrection < cpr
       /\ weight * CogCorrection - cpr * (new - old) < cpr
    \/ /\ new = cogmap_max_current
       /\ cpr * (new - old) - weight * CogCorrection < cpr
    \/ /\ new = -cogmap_max_current
       /\ weight * CogCorrection - cpr * (new - old) < cpr

C8_CircularPosError ==
    (/\ Updated /\ config.setpoints_in_cpr
     /\ last.mode1 >= CTRL_MODE_POSITION_CONTROL) =>
        /\ 0 <= pos_setpoint /\ pos_setpoint < cpr
        /\ (pos_setpoint - last.pos1) % cpr = 0
        /\ 2 * last.pos_err >= -cpr /\ 2 * last.pos_err < cpr
        /\ (last.pos_err - (pos_setpoint - last.in.pos_cpr)) % cpr = 0
        /\ (cpr = 8192 /\ last.pos1 = 8100 /\ last.in.pos_cpr = 50)
              => last.pos_err = -142

\* the example of the claim
C8_Witness ==
    /\ Updated /\ config.setpoints_in_cpr
    /\ last.mode1 = CTRL_MODE_POSITION_CONTROL
    /\ cpr = 8192 /\ last.pos1 = 8100 /\ last.in.pos_cpr = 50
    /\ pos_setpoint = 8100
    /\ last.pos_err = -142

\* a setpoint outside [0, cpr) is brought back into it
C8_WitnessNormalised ==
    /\ Updated /\ config.setpoints_in_cpr
    /\ last.mode1 >= CTRL_MODE_POSITION_CONTROL
    /\ last.pos1 < 0
    /\ pos_setpoint = last.pos1 + cpr

SetpointCommands == {"set_pos_setpoint", "set_vel_setpoint", "set_current_setpoint"}
MoveCommands == {"move_to_pos", "move_incremental"}

\* C9: set_pos_setpoint, set_vel_setpoint or set_current_setpoint called in
\* TRAJECTORY mode sets the mode to POSITION, VELOCITY or CURRENT; outside
\* TRAJECTORY mode no update samples the planner, completes a trajectory or
\* overwrites the current setpoint, and the mode becomes TRAJECTORY again
\* only by move_to_pos or move_incremental.
C9_TrajectoryCancellation ==
    [][ /\ (control_mode = CTRL_MODE_TRAJECTORY_CONTROL
              /\ last'.op \in SetpointCommands)
           => control_mode' =
                CASE last'.op = "set_pos_setpoint" -> CTRL_MODE_POSITION_CONTROL
                  [] last'.op = "set_vel_setpoint" -> CTRL_MODE_VELOCITY_CONTROL
                  [] last'.op = "set_current_setpoint" -> CTRL_MODE_CURRENT_CONTROL
        /\ (control_mode # CTRL_MODE_TRAJECTORY_CONTROL /\ last'.op = "update")
           => /\ ~last'.sampled /\ ~last'.completed
              /\ control_mode' = control_mode
              /\ current_setpoint' = current_setpoint
              /\ (pos_setpoint' - pos_setpoint) % cpr = 0
              /\ control_mode # CTRL_MODE_VELOCITY_CONTROL
                   => vel_setpoint' = vel_setpoint
        /\ (control_mode # CTRL_MODE_TRAJECTORY_CONTROL
              /\ control_mode' = CTRL_MODE_TRAJECTORY_CONTROL)
           => last'.op \in MoveCommands ]_vars

\* a cycle in VELOCITY mode after set_vel_setpoint cancelled a trajectory
\* that had been sampled twice and had not reached its planned duration
C9_Witness ==
    /\ Updated /\ cmds = 2 /\ cycles = 3
    /\ goal_point # 0 /\ trap.Tf > current_meas_period
    /\ last.mode0 = CTRL_MODE_VELOCITY_CONTROL
    /\ control_mode = CTRL_MODE_VELOCITY_CONTROL
    /\ pos_setpoint # 0

\* C10: reset sets the three setpoints and the integrator to zero and leaves
\* everything else unchanged: control mode, error set, axis fault flags,
\* goal_point, traj_start_loop_count and every cogging-map entry.
C10_ResetFrame ==
    [][ last'.op = "reset" =>
          /\ pos_setpoint' = 0
          /\ vel_setpoint' = 0
          /\ current_setpoint' = 0
          /\ vel_integrator_current' = 0
          /\ UNCHANGED <<control_mode, error, axis_error, goal_point,
                         traj_start_loop_count, cogmap, cogmap_current,
                         cogmap_correction_pwr, trap, loop_counter, out,
                         config>> ]_vars

\* a reset in TRAJECTORY mode, after a fault and with a learned cogging map
C10_Witness ==
    /\ last.op = "reset"
    /\ control_mode = CTRL_MODE_TRAJECTORY_CONTROL
    /\ error # {} /\ axis_error # {}
    /\ goal_point # 0
    /\ traj_start_loop_count # 0
    /\ \E i \in DOMAIN cogmap : cogmap[i] # 0
    /\ pos_setpoint = 0 /\ vel_setpoint = 0 /\ current_setpoint = 0
    /\ vel_integrator_current = 0

\* C11 as stated: once the overspeed bit is set, every later update returns
\* invalid, also when the velocity estimate is back below the threshold.
C11_NoAutoRecovery ==
    [][ (ERROR_OVERSPEED \in error /\ last'.op = "update") => ~last'.ret ]_vars

CommandOps == {"set_pos_setpoint", "set_vel_setpoint", "set_current_setpoint",
               "move_to_pos", "move_incremental"}

\* C12 as stated: no operation other than update writes the anti-windup
\* integrator or the cogging map.
C12_AsStated ==
    [][ last'.op # "update" =>
          /\ vel_integrator_current' = vel_integrator_current
          /\ cogmap' = cogmap ]_vars

\* C12 (amended): the cogging map is written only by update; the integrator
\* is written only by update and by reset, which zeroes it; the setpoint and
\* move commands write neither.
C12_SingleWriter ==
    [][ /\ last'.op # "update" => cogmap' = cogmap
        /\ last'.op \in CommandOps =>
              vel_integrator_current' = vel_integrator_current
        /\ last'.op = "reset" => vel_integrator_current' = 0 ]_vars

\* a command has run on a wound-up integrator and a learned cogging map
C12_Witness ==
    /\ last.op \in CommandOps
    /\ vel_integrator_current # 0
    /\ \E i \in DOMAIN cogmap : cogmap[i] # 0

\* C13: an update cycle that raises the overspeed fault leaves the
\* integrator, every cogging-map entry, cogmap_current,
\* cogmap_correction_pwr and the caller's output location unchanged.
C13_FaultCycleFrame ==
    [][ (last'.op = "update" /\ ~last'.ret) =>
          /\ vel_integrator_current' = vel_integrator_current
          /\ cogmap' = cogmap
          /\ cogmap_current' = cogmap_current
          /\ cogmap_correction_pwr' = cogmap_correction_pwr
          /\ out' = out ]_vars

\* a faulted cycle on a controller whose integrator, map, reported power and
\* output are nonzero, and whose cogmap_current is not the value that the
\* lookup of this cycle would have stored
C13_Witness ==
    /\ Updated /\ ~last.ret /\ last.in.has_out
    /\ vel_integrator_current # 0
    /\ cogmap_correction_pwr # 0
    /\ out # 0
    /\ cogmap_current # CogInterp(cogmap, CogIndex(last.in.count_in_cpr))

\* the number of cycles run since the last move_to_pos
CyclesSinceMove == cycles - traj_start_cycle

\* C14: if n cycles (0 <= n < 2^w, w the width of the loop counter) have
\* passed since move_to_pos stamped traj_start_loop_count, then
\* (loop_counter - traj_start_loop_count) mod 2^w = n, also when the counter
\* wrapped in between, and the elapsed time used by a trajectory cycle is the
\* number of cycles before it times the cycle period.
C14_ElapsedAcrossOverflow ==
    (traj_start_cycle >= 0 /\ CyclesSinceMove < LoopCounterRange) =>
        /\ (loop_counter - traj_start_loop_count) % LoopCounterRange
             = CyclesSinceMove
        /\ TrajCycle => last.t = (CyclesSinceMove - 1) * current_meas_period

\* a trajectory cycle with a positive elapsed time whose loop count was
\* numerically below the stamped start count: the counter wrapped in between
C14_Witness ==
    /\ TrajCycle /\ last.t > 0
    /\ (loop_counter - 1) % LoopCounterRange < traj_start_loop_count

\* C15: in VELOCITY mode with the ramp enabled, an update moves vel_setpoint
\* by at most cycle_period * vel_ramp_rate, toward vel_ramp_target and never
\* past it, and the remaining distance shrinks by the full step until it is
\* zero, where it stays; in any other mode, or with the ramp disabled, no
\* ramp step is applied.
C15_VelocityRamp ==
    [][ last'.op = "update" =>
          LET step == current_meas_period * vel_ramp_rate
              d0 == vel_ramp_target - vel_setpoint
              d1 == vel_ramp_target - vel_setpoint'
          IN  IF control_mode = CTRL_MODE_VELOCITY_CONTROL
                   /\ config.vel_ramp_enable
              THEN /\ Abs(vel_setpoint' - vel_setpoint) <= step
                   /\ d0 * d1 >= 0
                   /\ Abs(d1) = IF Abs(d0) > step THEN Abs(d0) - step ELSE 0
              ELSE IF control_mode = CTRL_MODE_TRAJECTORY_CONTROL
                   THEN vel_setpoint' = IF last'.completed THEN 0
                                        ELSE last'.step.Yd
                   ELSE vel_setpoint' = vel_setpoint ]_vars

\* the ramp has brought the velocity setpoint to the target by the third cycle
C15_Witness ==
    /\ Updated /\ cycles >= 3 /\ cmds = 1
    /\ control_mode = CTRL_MODE_VELOCITY_CONTROL
    /\ config.vel_ramp_enable
    /\ vel_setpoint = vel_ramp_target

\* the ramp is on its way: two steps from the commanded -5 toward the target
C15_WitnessOnTheWay ==
    /\ Updated
    /\ control_mode = CTRL_MODE_VELOCITY_CONTROL
    /\ config.vel_ramp_enable
    /\ vel_setpoint = 3

\* the same inputs with the other value of the pos_estimate argument
OtherPosEstimate(in) == [in EXCEPT !.pos_estimate = IF @ = 0 THEN 3 ELSE 0]

\* what an update returns, writes and computes, without the record of the
\* arguments it was called with
Observable(r) == [r EXCEPT !.last = [r.last EXCEPT !.in = NoInput]]

\* C16: with setpoints_in_cpr, two updates from the same state that differ
\* only in the pos_estimate argument give the same return flag, output and
\* resulting controller state; without it, in mode >= POSITION, the position
\* error is pos_setpoint - pos_estimate.
C16_PosEstimateIndependence ==
    /\ config.setpoints_in_cpr =>
          \A in \in Inputs :
              in.pos_estimate = 0 =>
                  Observable(ControllerUpdate(in))
                    = Observable(ControllerUpdate(OtherPosEstimate(in)))
    /\ (~config.setpoints_in_cpr /\ Updated
          /\ last.mode1 >= CTRL_MODE_POSITION_CONTROL)
        => last.pos_err = last.pos1 - last.in.pos_estimate

\* a position-loop cycle with setpoints_in_cpr and a nonzero pos_estimate
\* whose position error is not the one against pos_estimate, and from which
\* the next cycle would run the position loop again
C16_Witness ==
    /\ config.setpoints_in_cpr
    /\ Updated /\ last.ret
    /\ control_mode >= CTRL_MODE_POSITION_CONTROL
    /\ last.in.pos_estimate # 0
    /\ last.pos_err # last.pos1 - last.in.pos_estimate
    /\ last.pos_err # 0

\* without setpoints_in_cpr the error follows the pos_estimate argument
C16_WitnessLinear ==
    /\ ~config.setpoints_in_cpr
    /\ Updated /\ last.mode1 >= CTRL_MODE_POSITION_CONTROL
    /\ last.in.pos_estimate # 0
    /\ last.pos_err = last.pos1 - last.in.pos_estimate

\* C17 as stated: when update completes a trajectory (the mode drops from
\* TRAJECTORY to POSITION), the position setpoint equals the commanded goal.
C17_CompletionAtGoal ==
    (Updated /\ last.completed) => pos_setpoint = goal_point

\* C18 as stated: when a set_pos_setpoint(p, v, c) that update cycles may
\* have preempted between its field writes returns, the controller is in
\* POSITION mode with pos_setpoint = p, vel_setpoint = v and
\* current_setpoint = c.
C18_HalfUpdateTransient ==
    [][ (pending.pc = 3 /\ pending'.pc = 0) =>
          /\ control_mode' = CTRL_MODE_POSITION_CONTROL
          /\ pos_setpoint' = pending.p
          /\ vel_setpoint' = pending.v
          /\ current_setpoint' = pending.c ]_vars

TrajectoryDone ==
    /\ control_mode = CTRL_MODE_POSITION_CONTROL
    /\ vel_setpoint = 0
    /\ current_setpoint = 0

\* C19 as stated: after move_to_pos, with update called every cycle and no
\* other command, a trajectory whose planned duration is shorter than the
\* loop counter's range times the cycle period ends: the mode becomes
\* POSITION with zero velocity and current setpoints, and stays so.
C19_AsStated ==
    (/\ control_mode = CTRL_MODE_TRAJECTORY_CONTROL
     /\ trap.Tf < LoopCounterRange * current_meas_period)
        ~> []TrajectoryDone

\* C19 (amended): the same for a planned duration shorter than the largest
\* elapsed time the loop counter can express, (range - 1) cycle periods.
C19_TrajectoryTerminates ==
    (/\ control_mode = CTRL_MODE_TRAJECTORY_CONTROL
     /\ trap.Tf < (LoopCounterRange - 1) * current_meas_period)
        ~> []TrajectoryDone

\* a trajectory that completed on a cycle that raised the overspeed fault,
\* after an earlier cycle had sampled it
C19_Witness ==
    /\ Updated /\ last.completed /\ ~last.ret
    /\ TrajectoryDone
    /\ trap.Tf > 0
    /\ pos_setpoint # trap.Xi

\* C20: update changes the control mode in exactly one way, TRAJECTORY to
\* POSITION in the cycle that completes the trajectory, and leaves it as it
\* is in every other cycle; set_pos_setpoint sets POSITION, set_vel_setpoint
\* VELOCITY, set_current_setpoint CURRENT, move_to_pos and move_incremental
\* TRAJECTORY; reset does not change it.
C20_ModeChanges ==
    [][ /\ last'.op = "update" =>
              IF control_mode = CTRL_MODE_TRAJECTORY_CONTROL
                   /\ last'.t > trap.Tf
              THEN control_mode' = CTRL_MODE_POSITION_CONTROL
              ELSE control_mode' = control_mode
        /\ last'.op = "set_pos_setpoint"
              => control_mode' = CTRL_MODE_POSITION_CONTROL
        /\ last'.op = "set_vel_setpoint"
              => control_mode' = CTRL_MODE_VELOCITY_CONTROL
        /\ last'.op = "set_current_setpoint"
              => control_mode' = CTRL_MODE_CURRENT_CONTROL
        /\ last'.op \in MoveCommands
              => control_mode' = CTRL_MODE_TRAJECTORY_CONTROL
        /\ last'.op = "reset" => control_mode' = control_mode ]_vars

\* after two commands, the second a move, an update that returned valid has
\* dropped the mode from TRAJECTORY to POSITION
C20_Witness ==
    /\ Updated /\ last.ret /\ cmds = 2
    /\ last.mode0 = CTRL_MODE_TRAJECTORY_CONTROL
    /\ control_mode = CTRL_MODE_POSITION_CONTROL
    /\ vel_integrator_current = 0 /\ cycles >= 2

====
